---------------------------- MODULE Spec2Model ----------------------------
(***************************************************************************)
(* A model of scrape_liturgical_readings.py: the text helpers, the         *)
(* celebration-name / cycle-suffix extraction of parse_table_row, the      *)
(* Sunday filter, the row parser and the season driver.                    *)
(*                                                                         *)
(* A Python str is a sequence of characters; a character is a string of    *)
(* length one.  Three characters that are not ASCII are written by name:   *)
(* "ndash" (U+2013), "mdash" (U+2014) and "nbsp" (U+00A0).                 *)
(* None, the value None, is a sequence no str is equal to.                 *)
(***************************************************************************)
EXTENDS Integers, Sequences, FiniteSets, TLC

VARIABLES
    mode,           \* which entry point this behaviour exercises
    pc,             \* position of the running call
    arg,            \* the input of the call under study
    out,            \* what the call returned
    out2,           \* what the second call (on the first call's output) returned
    readings_data,  \* LiturgicalReadingScraper.readings_data
    console,        \* what print() has written, one entry per print call
    pages,          \* what fetch_page will return for each source: [obtained, tables]
    src_idx,        \* index in SEASON_PAGES of the source being scraped
    tbl_idx,        \* index of the table being iterated
    row_idx         \* index of the next row of that table

vars == <<mode, pc, arg, out, out2, readings_data, console, pages, src_idx, tbl_idx, row_idx>>

None == <<"None">>

-----------------------------------------------------------------------------
(* Characters *)

\* str.isspace(): the characters str.strip(), str.split() and the regex class \s take as whitespace
Whitespace == {" ", "\n", "nbsp"}

IsSpace(c) == c \in Whitespace

\* the dash characters of cycle_pattern's class [\s\-ndash mdash]
Dashes == {"-", "ndash", "mdash"}

UpperLetters == <<"A","B","C","D","E","F","G","H","I","J","K","L","M","N","O","P","Q","R","S","T","U","V","W","X","Y","Z">>

LowerLetters == <<"a","b","c","d","e","f","g","h","i","j","k","l","m","n","o","p","q","r","s","t","u","v","w","x","y","z">>

\* str.lower() on one character
LowerChar(c) ==
    IF \E i \in 1..26 : UpperLetters[i] = c
    THEN LowerLetters[CHOOSE i \in 1..26 : UpperLetters[i] = c]
    ELSE c

\* str.upper() on one character
UpperChar(c) ==
    IF \E i \in 1..26 : LowerLetters[i] = c
    THEN UpperLetters[CHOOSE i \in 1..26 : LowerLetters[i] = c]
    ELSE c

Lower(s) == [i \in 1..Len(s) |-> LowerChar(s[i])]

Upper(s) == [i \in 1..Len(s) |-> UpperChar(s[i])]

-----------------------------------------------------------------------------
(* str operations *)

MaxOf(S) == CHOOSE x \in S : \A y \in S : y <= x

MinOf(S) == CHOOSE x \in S : \A y \in S : x <= y

\* str.strip(): without leading and trailing whitespace
Strip(s) ==
    LET keep == {i \in 1..Len(s) : ~IsSpace(s[i])}
    IN  IF keep = {} THEN <<>> ELSE SubSeq(s, MinOf(keep), MaxOf(keep))

\* str.rstrip(chars): without the trailing characters that are in chars
RStrip(s, chars) ==
    LET keep == {i \in 1..Len(s) : s[i] \notin chars}
    IN  IF keep = {} THEN <<>> ELSE SubSeq(s, 1, MaxOf(keep))

\* needle in hay
Contains(hay, needle) ==
    \E i \in 1..(Len(hay) - Len(needle) + 1) :
        SubSeq(hay, i, i + Len(needle) - 1) = needle

\* ' '.join(s.split()): the words of s (maximal runs without whitespace) with
\* one space between two of them
RECURSIVE JoinWords(_, _)
JoinWords(t, i) ==
    IF i > Len(t) THEN <<>>
    ELSE IF ~IsSpace(t[i]) THEN <<t[i]>> \o JoinWords(t, i + 1)
    ELSE IF IsSpace(t[i - 1]) THEN JoinWords(t, i + 1)
    ELSE <<" ">> \o JoinWords(t, i + 1)

JoinSplit(s) == JoinWords(Strip(s), 1)

\* s.split(sep)[0] when sep (one character) is in s
BeforeFirst(s, sep) ==
    SubSeq(s, 1, MinOf({i \in 1..Len(s) : s[i] = sep}) - 1)

\* s.split(sep)[1] when sep (one character) is in s: between the first sep and the next
AfterFirst(s, sep) ==
    LET a    == MinOf({i \in 1..Len(s) : s[i] = sep})
        rest == SubSeq(s, a + 1, Len(s))
    IN  IF \E i \in 1..Len(rest) : rest[i] = sep THEN BeforeFirst(rest, sep) ELSE rest

\* where the regex anchor $ matches: at the end of the string, and before a
\* newline that ends the string.  The value is the index of the last character
\* before the anchor.
DollarEnds(t) ==
    {Len(t)} \cup (IF Len(t) > 0 /\ t[Len(t)] = "\n" THEN {Len(t) - 1} ELSE {})

-----------------------------------------------------------------------------
(* clean_reading_text *)

TrailingPunctuation == {".", ",", ";"}

clean_reading_text(text) ==
    IF text = None \/ text = <<>> THEN <<>>
    ELSE Strip(RStrip(JoinSplit(text), TrailingPunctuation))

(* parse_lectionary_number *)

parse_lectionary_number(num_text) ==
    IF num_text = None \/ num_text = <<>> THEN <<>>
    ELSE LET t == Strip(num_text)
         IN  IF \E i \in 1..Len(t) : t[i] = "-" THEN BeforeFirst(t, "-") ELSE t

-----------------------------------------------------------------------------
(* extract_reading_type *)

\* reading_type_map, as the set of its (key, value) pairs
reading_type_map ==
    { <<<<"V","i","g","i","l">>, <<"V","i","g","i","l">>>>,
      <<<<"N","i","g","h","t">>, <<"N","i","g","h","t">>>>,
      <<<<"D","a","w","n">>, <<"D","a","w","n">>>>,
      <<<<"D","a","y">>, <<"D","a","y">>>>,
      <<<<"A","t"," ","t","h","e"," ","V","i","g","i","l"," ","M","a","s","s">>, <<"V","i","g","i","l">>>>,
      <<<<"A","t"," ","t","h","e"," ","M","a","s","s"," ","a","t"," ","N","i","g","h","t">>, <<"N","i","g","h","t">>>>,
      <<<<"A","t"," ","t","h","e"," ","M","a","s","s"," ","a","t"," ","D","a","w","n">>, <<"D","a","w","n">>>>,
      <<<<"A","t"," ","t","h","e"," ","M","a","s","s"," ","d","u","r","i","n","g"," ","t","h","e"," ","D","a","y">>, <<"D","a","y">>>> }

\* reading_type_map.get(key, key)
MapReadingType(key) ==
    IF \E p \in reading_type_map : p[1] = key
    THEN (CHOOSE p \in reading_type_map : p[1] = key)[2]
    ELSE key

Standard == <<"S","t","a","n","d","a","r","d">>

\* re.search(r'\(([^)]+)\)$', t): the places i where a match starts: "(" at i,
\* at least one character other than ")", then ")" right before the anchor
ParenStarts(t) ==
    {i \in 1..Len(t) :
        \E e \in DollarEnds(t) :
            /\ i + 2 <= e
            /\ t[i] = "("
            /\ t[e] = ")"
            /\ \A k \in (i + 1)..(e - 1) : t[k] # ")"}

extract_reading_type(celebration_text) ==
    IF ParenStarts(celebration_text) # {}
    THEN LET start == MinOf(ParenStarts(celebration_text))
             e     == MaxOf({k \in 1..Len(celebration_text) : celebration_text[k] = ")"})
             group == SubSeq(celebration_text, start + 1, e - 1)
         IN  [celebration  |-> Strip(SubSeq(celebration_text, 1, start - 1)),
              reading_type |-> MapReadingType(Strip(group))]
    ELSE [celebration |-> Strip(celebration_text), reading_type |-> Standard]

-----------------------------------------------------------------------------
(* determine_cycle *)

determine_cycle(year_column) ==
    LET y == Upper(Strip(year_column))
    IN  IF y = <<"A","B","C">> THEN "Fixed"
        ELSE IF y \in {<<"A">>, <<"B">>, <<"C">>} THEN
            (IF y = <<"A">> THEN "A" ELSE IF y = <<"B">> THEN "B" ELSE "C")
        ELSE "Unknown"

-----------------------------------------------------------------------------
(* the cycle suffix search of parse_table_row *)

CycleLetters == {"A", "B", "C"}

\* the class [\s\-ndash mdash] of cycle_pattern
IsSeparator(c) == IsSpace(c) \/ c \in Dashes

\* the first index at or after i that holds no separator character
RECURSIVE SkipSeparators(_, _)
SkipSeparators(t, i) ==
    IF i <= Len(t) /\ IsSeparator(t[i]) THEN SkipSeparators(t, i + 1) ELSE i

\* cycle_pattern = r'[\s\-ndash mdash]*([ABC]{1,3})$' matched from index i: the
\* separators from i on (a letter of the token is no separator, so giving
\* separators back never helps), then one to three letters up to the anchor
CycleMatchAt(t, i) ==
    LET j == SkipSeparators(t, i)
    IN  \E e \in DollarEnds(t) :
            /\ e - j + 1 \in 1..3
            /\ \A k \in j..e : t[k] \in CycleLetters

\* re.search(cycle_pattern, t): the leftmost place a match starts, 0 when there is none
CycleMatchStart(t) ==
    LET starts == {i \in 1..Len(t) : CycleMatchAt(t, i)}
    IN  IF starts = {} THEN 0 ELSE MinOf(starts)

\* match.group(1)
CycleMatchGroup(t) ==
    LET j == SkipSeparators(t, CycleMatchStart(t))
        e == MaxOf({k \in DollarEnds(t) : k >= j /\ \A m \in j..k : t[m] \in CycleLetters})
    IN  SubSeq(t, j, e)

\* ExtractCelebration with the parenthetical looked for only before the cycle
\* suffix is removed (lines 289-290 left out)
ExtractCelebrationParenFirst(celebration_raw) ==
    LET first == extract_reading_type(celebration_raw)
        start == CycleMatchStart(celebration_raw)
    IN  IF start # 0
        THEN [celebration    |-> Strip(SubSeq(celebration_raw, 1, start - 1)),
              reading_type   |-> first.reading_type,
              matched        |-> TRUE,
              year_indicator |-> CycleMatchGroup(celebration_raw),
              cycle          |-> determine_cycle(CycleMatchGroup(celebration_raw))]
        ELSE [celebration    |-> first.celebration,
              reading_type   |-> first.reading_type,
              matched        |-> FALSE,
              year_indicator |-> <<"A","B","C">>,
              cycle          |-> determine_cycle(<<"A","B","C">>)]

\* lines 272-300 of parse_table_row: from celebration_raw to celebration,
\* reading_type, year_indicator and cycle
ExtractCelebration(celebration_raw) ==
    LET first == extract_reading_type(celebration_raw)
        start == CycleMatchStart(celebration_raw)
    IN  IF start # 0
        THEN LET cleaned == Strip(SubSeq(celebration_raw, 1, start - 1))
                 again   == extract_reading_type(cleaned)
                 group   == CycleMatchGroup(celebration_raw)
             IN  [celebration    |-> again.celebration,
                  reading_type   |-> again.reading_type,
                  matched        |-> TRUE,
                  year_indicator |-> group,
                  cycle          |-> determine_cycle(group)]
        ELSE [celebration    |-> first.celebration,
              reading_type   |-> first.reading_type,
              matched        |-> FALSE,
              year_indicator |-> <<"A","B","C">>,
              cycle          |-> determine_cycle(<<"A","B","C">>)]

-----------------------------------------------------------------------------
(* is_sunday_reading *)

sunday_equivalent_solemnities ==
    << <<"T","h","e"," ","N","a","t","i","v","i","t","y"," ","o","f"," ","t","h","e"," ","L","o","r","d">>,
       <<"C","h","r","i","s","t","m","a","s">>,
       <<"T","h","e"," ","E","p","i","p","h","a","n","y"," ","o","f"," ","t","h","e"," ","L","o","r","d">>,
       <<"E","p","i","p","h","a","n","y">>,
       <<"T","h","e"," ","B","a","p","t","i","s","m"," ","o","f"," ","t","h","e"," ","L","o","r","d">>,
       <<"A","s","h"," ","W","e","d","n","e","s","d","a","y">>,
       <<"P","a","l","m"," ","S","u","n","d","a","y">>,
       <<"H","o","l","y"," ","T","h","u","r","s","d","a","y">>,
       <<"G","o","o","d"," ","F","r","i","d","a","y">>,
       <<"E","a","s","t","e","r"," ","S","u","n","d","a","y">>,
       <<"T","h","e"," ","A","s","c","e","n","s","i","o","n"," ","o","f"," ","t","h","e"," ","L","o","r","d">>,
       <<"A","s","c","e","n","s","i","o","n">>,
       <<"P","e","n","t","e","c","o","s","t"," ","S","u","n","d","a","y">>,
       <<"T","h","e"," ","M","o","s","t"," ","H","o","l","y"," ","T","r","i","n","i","t","y">>,
       <<"T","r","i","n","i","t","y"," ","S","u","n","d","a","y">>,
       <<"T","h","e"," ","M","o","s","t"," ","H","o","l","y"," ","B","o","d","y"," ","a","n","d"," ","B","l","o","o","d"," ","o","f"," ","C","h","r","i","s","t">>,
       <<"C","o","r","p","u","s"," ","C","h","r","i","s","t","i">>,
       <<"T","h","e"," ","M","o","s","t"," ","S","a","c","r","e","d"," ","H","e","a","r","t"," ","o","f"," ","J","e","s","u","s">>,
       <<"S","a","c","r","e","d"," ","H","e","a","r","t">>,
       <<"C","h","r","i","s","t"," ","t","h","e"," ","K","i","n","g">>,
       <<"O","u","r"," ","L","o","r","d"," ","J","e","s","u","s"," ","C","h","r","i","s","t",","," ","K","i","n","g"," ","o","f"," ","t","h","e"," ","U","n","i","v","e","r","s","e">> >>

\* the for loop of is_sunday_reading from entry i on: TRUE at the first entry
\* that is in the celebration, both in lower case
RECURSIVE SolemnityLoop(_, _)
SolemnityLoop(celebration, i) ==
    IF i > Len(sunday_equivalent_solemnities) THEN FALSE
    ELSE IF Contains(Lower(celebration), Lower(sunday_equivalent_solemnities[i])) THEN TRUE
    ELSE SolemnityLoop(celebration, i + 1)

\* is_sunday_reading comparing the entries as written, not in lower case
is_sunday_reading_case_sensitive(celebration, date_col) ==
    IF Contains(celebration, <<"S","u","n","d","a","y">>) THEN TRUE
    ELSE IF \E i \in DOMAIN sunday_equivalent_solemnities :
                Contains(celebration, sunday_equivalent_solemnities[i]) THEN TRUE
    ELSE IF date_col # <<>> /\ Contains(date_col, <<"S","u","n">>) THEN TRUE
    ELSE FALSE

is_sunday_reading(celebration, date_col) ==
    IF Contains(celebration, <<"S","u","n","d","a","y">>) THEN TRUE
    ELSE IF SolemnityLoop(celebration, 1) THEN TRUE
    ELSE IF date_col # <<>> /\ Contains(date_col, <<"S","u","n">>) THEN TRUE
    ELSE FALSE

-----------------------------------------------------------------------------
(* parse_table_row *)

\* the length check one cell short
MinCellsOneLess == 7 - 1

\* "if len(cells) < 7: return None"
MinCells == 7

\* "if len(self.readings_data) < 10": the rows whose diagnostics are printed
DebugLimit == 10

\* cells[k].get_text(strip=True) of a cell that holds one text node; k counts from 0
CellText(cells, k) == Strip(cells[k + 1])

\* the indices (from 0) of the cells the body reads once the length check has passed
CellsRead(cells) == (0..6) \cup (IF Len(cells) >= 8 THEN {7} ELSE {})

\* gospel_acc and gospel (lines 245-259)
GospelColumns(cells) ==
    IF Len(cells) >= 8
    THEN [gospel_acc |-> clean_reading_text(CellText(cells, 6)),
          gospel     |-> clean_reading_text(CellText(cells, 7))]
    ELSE LET gospel_text == CellText(cells, 6)
         IN  IF \E i \in 1..Len(gospel_text) : gospel_text[i] = "|"
             THEN [gospel_acc |-> clean_reading_text(BeforeFirst(gospel_text, "|")),
                   gospel     |-> clean_reading_text(AfterFirst(gospel_text, "|"))]
             ELSE [gospel_acc |-> <<>>,
                   gospel     |-> clean_reading_text(gospel_text)]

\* the diagnostics with "<= 10" for "< 10"
DebugPrintsInclusive(n, tags) == IF n <= DebugLimit THEN tags ELSE <<>>

\* the print calls of the diagnostics, each named by what it prints; n is
\* len(self.readings_data)
DebugPrints(n, tags) == IF n < DebugLimit THEN tags ELSE <<>>

\* The value of parse_table_row(row, season) when self.readings_data holds n
\* records: raised (an IndexError left the function), entries (the list
\* returned, <<>> for None) and prints (the print calls made, in order).
parse_table_row(cells, season, n) ==
    IF Len(cells) < MinCells
    THEN [raised |-> FALSE, entries |-> <<>>, prints |-> <<>>]
    ELSE IF \E k \in CellsRead(cells) : k + 1 \notin DOMAIN cells
    THEN [raised |-> TRUE, entries |-> <<>>, prints |-> <<>>]
    ELSE
    LET date_col        == CellText(cells, 0)
        lect_num        == parse_lectionary_number(CellText(cells, 1))
        celebration_raw == CellText(cells, 2)
        first_reading   == clean_reading_text(CellText(cells, 3))
        psalm           == clean_reading_text(CellText(cells, 4))
        second_reading  == clean_reading_text(CellText(cells, 5))
        g               == GospelColumns(cells)
        x               == ExtractCelebration(celebration_raw)
        prints          ==
            DebugPrints(n, <<"debug_reading", "debug_celebration_raw",
                             "debug_last_chars", "debug_last_bytes">>)
            \o (IF x.matched
                THEN DebugPrints(n, <<"regex_matched", "cleaned_name">>)
                ELSE DebugPrints(n, <<"regex_no_match", "testing_pattern">>))
            \o DebugPrints(n, <<"final_cycle">>)
    IN  IF ~is_sunday_reading(celebration_raw, date_col)
        THEN [raised |-> FALSE, entries |-> <<>>, prints |-> <<>>]
        ELSE IF x.cycle \in {"Fixed", "A", "B", "C"}
        THEN [raised  |-> FALSE,
              entries |-> << [celebration    |-> x.celebration,
                              cycle          |-> x.cycle,
                              lect_num       |-> lect_num,
                              reading_type   |-> x.reading_type,
                              first_reading  |-> first_reading,
                              psalm          |-> psalm,
                              second_reading |-> second_reading,
                              gospel_acc     |-> g.gospel_acc,
                              gospel         |-> g.gospel,
                              notes          |-> <<"Source: ", season>>] >>,
              prints  |-> prints]
        ELSE [raised |-> FALSE, entries |-> <<>>, prints |-> prints]

-----------------------------------------------------------------------------
(* scrape_season and scrape_all_seasons *)

\* the keys of SEASON_PAGES, in the order the dict is written and iterated
SEASON_PAGES == <<"Advent", "Christmas", "Lent", "Easter", "OrdinaryTime">>

\* what is printed, as console entries about one subject (a source, or a row
\* of a source): each print call is named by what it prints
Printed(tags, about) == [i \in 1..Len(tags) |-> [tag |-> tags[i], about |-> about]]

\* fetch_page when the source cannot be obtained: the line that announces the
\* read or the request, then the lines of the except branch taken (File not
\* found, Error reading, or Error fetching with its tip), and None returned
FetchFailurePrints == <<"fetch_attempt", "fetch_error">>

\* scrape_season(season_name, page_filename) when fetch_page returns None
\* (lines 335-340): what it prints; readings_data is not touched
ScrapeSeasonUnavailable(season) ==
    [prints |-> <<"scraping">> \o FetchFailurePrints \o <<"failed_to_fetch">>]

\* What fetch_page returns for a source: obtained is FALSE for None; else
\* tables is soup.find_all('table').  A page is the sequence of its tables, a table the
\* sequence of its rows, a row [th, cells]: th says whether row.find('th')
\* finds a header cell, cells are the texts of its td cells.
CurrentSeason == SEASON_PAGES[src_idx]

CurrentTables == pages[src_idx].tables

\* scrape_all_seasons, lines 365-367: the banner
Begin ==
    /\ mode = "scrape"
    /\ pc = "start"
    /\ console' = console \o Printed(<<"banner_rule", "banner_title", "banner_rule">>, "run")
    /\ src_idx' = 1
    /\ pc' = "season"
    /\ UNCHANGED <<mode, arg, out, out2, readings_data, pages, tbl_idx, row_idx>>

\* FetchFailed with the failure ending the whole run
FetchFailedAborts ==
    /\ mode = "scrape"
    /\ pc = "season"
    /\ src_idx <= Len(SEASON_PAGES)
    /\ ~pages[src_idx].obtained
    /\ console' = console \o Printed(ScrapeSeasonUnavailable(CurrentSeason).prints, CurrentSeason)
    /\ pc' = "done"
    /\ UNCHANGED <<mode, arg, out, out2, readings_data, pages, src_idx, tbl_idx, row_idx>>

\* scrape_season for a source fetch_page returns None for: logged, skipped
FetchFailed ==
    /\ mode = "scrape"
    /\ pc = "season"
    /\ src_idx <= Len(SEASON_PAGES)
    /\ ~pages[src_idx].obtained
    /\ console' = console \o Printed(ScrapeSeasonUnavailable(CurrentSeason).prints, CurrentSeason)
    /\ src_idx' = src_idx + 1
    /\ UNCHANGED <<mode, pc, arg, out, out2, readings_data, pages, tbl_idx, row_idx>>

\* scrape_season lines 335-346 for a source that is obtained
FetchOk ==
    /\ mode = "scrape"
    /\ pc = "season"
    /\ src_idx <= Len(SEASON_PAGES)
    /\ pages[src_idx].obtained
    /\ console' = console \o Printed(<<"scraping", "fetch_attempt", "found_tables">>, CurrentSeason)
    /\ tbl_idx' = 1
    /\ row_idx' = 1
    /\ pc' = "rows"
    /\ UNCHANGED <<mode, arg, out, out2, readings_data, pages, src_idx>>

\* a row with a th cell is skipped (lines 351-353)
SkipHeader ==
    /\ mode = "scrape"
    /\ pc = "rows"
    /\ tbl_idx <= Len(CurrentTables)
    /\ row_idx <= Len(CurrentTables[tbl_idx])
    /\ CurrentTables[tbl_idx][row_idx].th
    /\ row_idx' = row_idx + 1
    /\ UNCHANGED <<mode, pc, arg, out, out2, readings_data, console, pages, src_idx, tbl_idx>>

\* the loop of scrape_season is at a row that has no th cell
AtDataRow ==
    /\ mode = "scrape"
    /\ pc = "rows"
    /\ tbl_idx <= Len(CurrentTables)
    /\ row_idx <= Len(CurrentTables[tbl_idx])
    /\ ~CurrentTables[tbl_idx][row_idx].th

\* any other row is parsed and its entries are appended (lines 355-359); an
\* exception leaving parse_table_row is caught nowhere and ends the run
ParseRow ==
    /\ AtDataRow
    /\ LET r == parse_table_row(CurrentTables[tbl_idx][row_idx].cells,
                                CurrentSeason, Len(readings_data))
       IN  /\ out' = r
           /\ console' = console \o Printed(r.prints, <<CurrentSeason, tbl_idx, row_idx>>)
           /\ readings_data' = IF r.raised THEN readings_data ELSE readings_data \o r.entries
           /\ pc' = IF r.raised THEN "crashed" ELSE "rows"
    /\ row_idx' = row_idx + 1
    /\ UNCHANGED <<mode, arg, out2, pages, src_idx, tbl_idx>>

\* the rows of a table are exhausted: the next table
NextTable ==
    /\ mode = "scrape"
    /\ pc = "rows"
    /\ tbl_idx <= Len(CurrentTables)
    /\ row_idx > Len(CurrentTables[tbl_idx])
    /\ tbl_idx' = tbl_idx + 1
    /\ row_idx' = 1
    /\ UNCHANGED <<mode, pc, arg, out, out2, readings_data, console, pages, src_idx>>

\* the tables are exhausted: line 361, and the next source
EndSeason ==
    /\ mode = "scrape"
    /\ pc = "rows"
    /\ tbl_idx > Len(CurrentTables)
    /\ console' = console \o Printed(<<"extracted_count">>, CurrentSeason)
    /\ src_idx' = src_idx + 1
    /\ pc' = "season"
    /\ UNCHANGED <<mode, arg, out, out2, readings_data, pages, tbl_idx, row_idx>>

\* scrape_all_seasons after the last source: line 372
Finish ==
    /\ mode = "scrape"
    /\ pc = "season"
    /\ src_idx > Len(SEASON_PAGES)
    /\ console' = console \o Printed(<<"total">>, "run")
    /\ pc' = "done"
    /\ UNCHANGED <<mode, arg, out, out2, readings_data, pages, src_idx, tbl_idx, row_idx>>

Next ==
    \/ Begin
    \/ FetchFailed
    \/ FetchOk
    \/ SkipHeader
    \/ ParseRow
    \/ NextTable
    \/ EndSeason
    \/ Finish

-----------------------------------------------------------------------------
(* Bounded inputs *)

\* the longest string of arbitrary characters that is enumerated
MaxLen == 2

\* all strings over alphabet of length at most n
StringsUpTo(alphabet, n) == UNION {[1..k -> alphabet] : k \in 0..n}

\* the variables a specification does not use stay as constructed
DriverIdle ==
    /\ readings_data = <<>>
    /\ console = <<>>
    /\ pages = <<>>
    /\ src_idx = 0
    /\ tbl_idx = 0
    /\ row_idx = 0

DriverUnchanged == UNCHANGED <<readings_data, console, pages, src_idx, tbl_idx, row_idx>>

-----------------------------------------------------------------------------
(* The extraction on one celebration cell: SpecExtract *)

NameAlphabet == {"x", "A", "B", " ", "-", "(", ")"}

SampleNames ==
    { <<"C","h","r","i","s","t","m","a","s">>, <<"1","s","t"," ","S","u","n","d","a","y"," ","o","f"," ","A","d","v","e","n","t">>, <<"E","a","s","t","e","r"," ","S","u","n","d","a","y">>, <<"S","u","n","d","a","y"," ","o","f"," ","C","A","N","A">>,
      <<"2","n","d"," ","S","u","n","d","a","y"," ","-"," ","A">>,
      <<"V","i","g","i","l">>, <<"A","t"," ","t","h","e"," ","M","a","s","s"," ","a","t"," ","N","i","g","h","t">>, <<"A","t"," ","t","h","e"," ","M","a","s","s"," ","a","t"," ","D","a","w","n">>,
      <<"A","t"," ","t","h","e"," ","M","a","s","s"," ","d","u","r","i","n","g"," ","t","h","e"," ","D","a","y">> }

\* a word of the name, then any characters
CellNames == {<<"S","u","n","d","a","y">> \o t : t \in StringsUpTo(NameAlphabet, MaxLen)} \cup SampleNames

\* the labels put in parentheses: the keys of reading_type_map and two others
CellLabels == {p[1] : p \in reading_type_map} \cup {<<"O","c","t","a","v","e">>, <<"x">>}

CellParentheticals == {<<>>} \cup {<<" ","(">> \o T \o <<")">> : T \in CellLabels}

CycleTokens == {<<"A">>, <<"B">>, <<"C">>, <<"A","B","C">>}

CellSeparators == {<<" ","-"," ">>, <<"-">>, <<" ","ndash"," ">>, <<"mdash">>, <<" ">>}

CellSuffixes ==
    {<<>>} \cup {sep \o tok : sep \in CellSeparators, tok \in CycleTokens \cup {<<"A","B">>}}

ExtractInputs ==
    {n \o p \o s : n \in CellNames, p \in CellParentheticals, s \in CellSuffixes}

InitExtract ==
    /\ mode = "extract"
    /\ pc = "input"
    /\ arg \in ExtractInputs
    /\ out = None
    /\ out2 = None
    /\ DriverIdle

\* parse_table_row's extraction on celebration_raw = cells[2].get_text(strip=True)
ExtractStep ==
    /\ mode = "extract"
    /\ pc = "input"
    /\ out' = ExtractCelebration(Strip(arg))
    /\ pc' = "once"
    /\ UNCHANGED <<mode, arg, out2>>
    /\ DriverUnchanged

\* the same extraction on a cell that holds the celebration name just returned
ReExtractStep ==
    /\ mode = "extract"
    /\ pc = "once"
    /\ out2' = ExtractCelebration(Strip(out.celebration))
    /\ pc' = "twice"
    /\ UNCHANGED <<mode, arg, out>>
    /\ DriverUnchanged

NextExtract == ExtractStep \/ ReExtractStep

SpecExtract == InitExtract /\ [][NextExtract]_vars

-----------------------------------------------------------------------------
(* Claims about the extraction, under SpecExtract *)

\* the cycle a token of the spec stands for
CycleOfToken(tok) ==
    IF tok = <<"A","B","C">> THEN "Fixed"
    ELSE IF tok = <<"A">> THEN "A"
    ELSE IF tok = <<"B">> THEN "B"
    ELSE "C"

\* s is a cycle suffix as C1 words it: optional spaces, one dash (hyphen,
\* en-dash or em-dash), optional spaces, then the token tok
IsDashSuffix(s, tok) ==
    \E d \in 1..Len(s) :
        /\ s[d] \in Dashes
        /\ \A k \in 1..(d - 1) : IsSpace(s[k])
        /\ \E j \in (d + 1)..Len(s) :
              /\ \A k \in (d + 1)..(j - 1) : IsSpace(s[k])
              /\ SubSeq(s, j, Len(s)) = tok

\* where in raw such a suffix starts, for any of the four tokens
DashSuffixStarts(raw) ==
    {i \in 1..Len(raw) : \E tok \in CycleTokens : IsDashSuffix(SubSeq(raw, i, Len(raw)), tok)}

\* C1: a cell that ends with a separator (a dash, with or without spaces
\* around it) and one of the tokens A, B, C, ABC has exactly that suffix removed
\* from the name and gets the token's cycle (Fixed for ABC); every other cell
\* gets the cycle Fixed.
C1_SuffixRemovedElseFixed ==
    pc = "once" =>
        LET raw    == Strip(arg)
            starts == DashSuffixStarts(raw)
        IN  IF starts # {}
            THEN LET i      == MinOf(starts)
                     tok    == CHOOSE t \in CycleTokens :
                                   IsDashSuffix(SubSeq(raw, i, Len(raw)), t)
                     prefix == SubSeq(raw, 1, i - 1)
                 IN  /\ out.cycle = CycleOfToken(tok)
                     /\ (\A k \in 1..Len(prefix) : prefix[k] \notin {"(", ")"})
                            => out.celebration = prefix
            ELSE out.cycle = "Fixed"

\* the canonical short form of a label, as C2 lists them
ShortForm(T) ==
    IF T \in {<<"V","i","g","i","l">>, <<"A","t"," ","t","h","e"," ","V","i","g","i","l"," ","M","a","s","s">>} THEN <<"V","i","g","i","l">>
    ELSE IF T \in {<<"N","i","g","h","t">>, <<"A","t"," ","t","h","e"," ","M","a","s","s"," ","a","t"," ","N","i","g","h","t">>} THEN <<"N","i","g","h","t">>
    ELSE IF T \in {<<"D","a","w","n">>, <<"A","t"," ","t","h","e"," ","M","a","s","s"," ","a","t"," ","D","a","w","n">>} THEN <<"D","a","w","n">>
    ELSE IF T \in {<<"D","a","y">>, <<"A","t"," ","t","h","e"," ","M","a","s","s"," ","d","u","r","i","n","g"," ","t","h","e"," ","D","a","y">>} THEN <<"D","a","y">>
    ELSE T

\* a name: no whitespace at either end, and no "(" left open
IsName(N) ==
    /\ Strip(N) = N
    /\ \A i \in 1..Len(N) : N[i] = "(" => \E k \in (i + 1)..Len(N) : N[k] = ")"

\* a parenthetical label: not empty, no whitespace at either end, no ")"
IsLabel(T) ==
    /\ T # <<>>
    /\ Strip(T) = T
    /\ \A i \in 1..Len(T) : T[i] # ")"

EndsWith(s, tail) ==
    /\ Len(s) >= Len(tail)
    /\ SubSeq(s, Len(s) - Len(tail) + 1, Len(s)) = tail

\* the ways to read the cell as N + " (" + T + ") - " + c: the triples <<N, T, c>>
Decompositions(cell) ==
    UNION { { <<SubSeq(cell, 1, i - 1), SubSeq(cell, i + 2, Len(cell) - Len(c) - 4), c>> :
                i \in {k \in 1..(Len(cell) - Len(c) - 5) : SubSeq(cell, k, k + 1) = <<" ","(">>} } :
            c \in {t \in CycleTokens : EndsWith(cell, <<")"," ","-"," ">> \o t)} }

C3_ExtractIdempotent ==
    pc = "twice" =>
        /\ out2.celebration = out.celebration
        /\ out2.cycle = "Fixed"
        /\ out2.reading_type = Standard
        /\ ~out2.matched

\* the qualifiers C10 names, each with its reading type
PlainQualifiers ==
    { <<<<"V","i","g","i","l">>, <<"V","i","g","i","l">>>>,
      <<<<"A","t"," ","t","h","e"," ","M","a","s","s"," ","a","t"," ","N","i","g","h","t">>, <<"N","i","g","h","t">>>>,
      <<<<"A","t"," ","t","h","e"," ","M","a","s","s"," ","a","t"," ","D","a","w","n">>, <<"D","a","w","n">>>>,
      <<<<"A","t"," ","t","h","e"," ","M","a","s","s"," ","d","u","r","i","n","g"," ","t","h","e"," ","D","a","y">>, <<"D","a","y">>>> }

\* C10: a cell that carries a Mass qualifier as plain text, without
\* parentheses, gets that qualifier's reading type; the reading type is Standard
\* only when the cell holds no recognized qualifier.
C10_PlainQualifierRecognized ==
    pc = "once" =>
        \A q \in PlainQualifiers :
            ( /\ Contains(Strip(arg), q[1])
              /\ \A k \in 1..Len(arg) : arg[k] \notin {"(", ")"} )
            => out.reading_type = q[2]

-----------------------------------------------------------------------------
(* clean_reading_text on one text: SpecClean *)

\* the longest text given to clean_reading_text
MaxText == 4

TextAlphabet == {"a", " ", "\n", ".", ",", ";"}

InitClean ==
    /\ mode = "clean"
    /\ pc = "input"
    /\ arg \in StringsUpTo(TextAlphabet, MaxText) \cup {None}
    /\ out = None
    /\ out2 = None
    /\ DriverIdle

CleanStep ==
    /\ mode = "clean"
    /\ pc = "input"
    /\ out' = clean_reading_text(arg)
    /\ pc' = "once"
    /\ UNCHANGED <<mode, arg, out2>>
    /\ DriverUnchanged

\* clean_reading_text on what it returned
CleanAgainStep ==
    /\ mode = "clean"
    /\ pc = "once"
    /\ out2' = clean_reading_text(out)
    /\ pc' = "twice"
    /\ UNCHANGED <<mode, arg, out>>
    /\ DriverUnchanged

NextClean == CleanStep \/ CleanAgainStep

SpecClean == InitClean /\ [][NextClean]_vars

\* C4: clean_reading_text is idempotent, clean(clean(x)) = clean(x) for every
\* x, and returns "" for empty or absent input.
C4_CleanIdempotent ==
    /\ pc = "twice" => out2 = out
    /\ (pc # "input" /\ arg \in {None, <<>>}) => out = <<>>

-----------------------------------------------------------------------------
(* is_sunday_reading on one (celebration, date column): SpecSunday *)

\* celebration names that hold no entry of the list
OtherNames ==
    { <<"S","t","."," ","S","t","e","p","h","e","n",","," ","F","i","r","s","t"," ","M","a","r","t","y","r">>, <<"s","u","n","d","a","y">>, <<"S","U","N","D","A","Y">>, <<"S","u","n">>, <<"S","u","n","d","a"," ","y">>,
      <<"H","o","l","y"," ","I","n","n","o","c","e","n","t","s",","," ","M","a","r","t","y","r","s">>, <<"V","i","g","i","l">>, <<"P","e","n","t","e","c","o","s","t">>, <<"E","p","i","p","h","a","n">>,
      <<"S","a","c","r","e","d"," "," ","H","e","a","r","t">>, <<"C","h","r","i","s","t",","," ","t","h","e"," ","K","i","n","g">>, <<>> }

\* each entry as written, in lower case, in upper case and without its last character
EntryVariants ==
    UNION { LET e == sunday_equivalent_solemnities[i]
            IN  {e, Lower(e), Upper(e), SubSeq(e, 1, Len(e) - 1)} :
            i \in DOMAIN sunday_equivalent_solemnities }

SundayNames ==
    {pre \o n : pre \in StringsUpTo({"x", " "}, MaxLen - 1), n \in EntryVariants \cup OtherNames}

SundayDates == { <<>>, <<"S","u","n">>, <<"s","u","n">>, <<"S","U","N">>, <<"S","u","n","."," ","a","f","t","e","r"," ","D","e","c","."," ","2","5">>, <<"D","e","c","."," ","2","6">>, <<"1","s","t"," ","S","u"," ","n">> }

InitSunday ==
    /\ mode = "sunday"
    /\ pc = "input"
    /\ arg \in [celebration : SundayNames, date_col : SundayDates]
    /\ out = None
    /\ out2 = None
    /\ DriverIdle

SundayStep ==
    /\ mode = "sunday"
    /\ pc = "input"
    /\ out' = is_sunday_reading(arg.celebration, arg.date_col)
    /\ pc' = "once"
    /\ UNCHANGED <<mode, arg, out2>>
    /\ DriverUnchanged

NextSunday == SundayStep

SpecSunday == InitSunday /\ [][NextSunday]_vars

\* a and b are the same character, or the same letter in the two cases
SameIgnoringCase(a, b) ==
    \/ a = b
    \/ \E i \in 1..26 : {a, b} = {UpperLetters[i], LowerLetters[i]}

\* needle is in hay when the case of letters is ignored
ContainsIgnoringCase(hay, needle) ==
    \E i \in 1..(Len(hay) - Len(needle) + 1) :
        \A k \in 1..Len(needle) : SameIgnoringCase(hay[i + k - 1], needle[k])

\* C5: is_sunday_reading(name, date) is true exactly when the name contains
\* "Sunday", or contains, ignoring case, an entry of the solemnity list, or the
\* date column contains "Sun"; it is false for every other input.
C5_SundayExactly ==
    pc = "once" =>
        ( out = TRUE <=>
            \/ Contains(arg.celebration, <<"S","u","n","d","a","y">>)
            \/ \E i \in DOMAIN sunday_equivalent_solemnities :
                  ContainsIgnoringCase(arg.celebration, sunday_equivalent_solemnities[i])
            \/ Contains(arg.date_col, <<"S","u","n">>) )

\* ("The Baptism of the Lord", "") is true and ("St. Stephen, First Martyr",
\* "Dec. 26") is false
C5_Witness ==
    /\ pc = "once"
    /\ \/ /\ arg.celebration = <<"T","h","e"," ","B","a","p","t","i","s","m"," ","o","f"," ","t","h","e"," ","L","o","r","d">>
          /\ arg.date_col = <<>>
          /\ out = TRUE
       \/ /\ arg.celebration = <<"S","t","."," ","S","t","e","p","h","e","n",","," ","F","i","r","s","t"," ","M","a","r","t","y","r">>
          /\ arg.date_col = <<"D","e","c","."," ","2","6">>
          /\ out = FALSE

-----------------------------------------------------------------------------
(* One whole run of scrape_all_seasons: Spec *)

\* the most rows a table of an input page holds
MaxRows == 2

\* a row of eight cells with the given celebration cell
RowOf(celebration) ==
    [th |-> FALSE,
     cells |-> << <<"D","e","c","."," ","1">>, <<"1">>, celebration, <<"I","s","a"," ","2",":","1","-","5">>, <<"P","s"," ","1","2","2">>, <<"R","o","m"," ","1","3",":","1","1","-","1","4">>,
                  <<"P","s"," ","8","5",":","8">>, <<"M","a","t","t"," ","2","4",":","3","7","-","4","4">> >>]

HeaderRow == [th |-> TRUE, cells |-> <<>>]

\* six cells only
ShortRow == [th |-> FALSE, cells |-> SubSeq(RowOf(<<"3","r","d"," ","S","u","n","d","a","y"," ","-"," ","C">>).cells, 1, 6)]

DriverRows ==
    {HeaderRow, ShortRow, RowOf(<<"1","s","t"," ","S","u","n","d","a","y"," ","o","f"," ","A","d","v","e","n","t"," ","-"," ","A">>), RowOf(<<"2","n","d"," ","S","u","n","d","a","y"," ","-"," ","B">>)}

DriverTables == StringsUpTo(DriverRows, MaxRows)

\* a page with no table, with one table, or with that table and a second one
DriverPages ==
    {<<>>} \cup {<<t>> : t \in DriverTables}
           \cup {<<t, <<HeaderRow, RowOf(<<"E","a","s","t","e","r"," ","S","u","n","d","a","y">>)>> >> : t \in DriverTables}

\* every choice of the sources that cannot be obtained; the others hold a page
Init ==
    /\ mode = "scrape"
    /\ pc = "start"
    /\ arg = None
    /\ out = None
    /\ out2 = None
    /\ readings_data = <<>>
    /\ console = <<>>
    /\ \E page \in DriverPages : \E obtained \in SUBSET (1..Len(SEASON_PAGES)) :
           pages = [s \in 1..Len(SEASON_PAGES) |->
                       [obtained |-> s \in obtained,
                        tables   |-> IF s \in obtained THEN page ELSE <<>>]]
    /\ src_idx = 0
    /\ tbl_idx = 0
    /\ row_idx = 0

Spec == Init /\ [][Next]_vars

RECURSIVE ConcatAll(_)
ConcatAll(ss) == IF ss = <<>> THEN <<>> ELSE Head(ss) \o ConcatAll(Tail(ss))

\* the records parse_table_row returns for a row that is no header row
RowRecords(row, season) ==
    IF row.th THEN <<>> ELSE parse_table_row(row.cells, season, 0).entries

TableRecords(t, season) == ConcatAll([i \in 1..Len(t) |-> RowRecords(t[i], season)])

PageRecords(p, season) == ConcatAll([i \in 1..Len(p) |-> TableRecords(p[i], season)])

\* the records of source s: none when it cannot be obtained
SourceRecords(s) ==
    IF pages[s].obtained THEN PageRecords(pages[s].tables, SEASON_PAGES[s]) ELSE <<>>

\* the sources scrape_season was called for, in the order of the calls
Attempted ==
    LET calls == SelectSeq(console, LAMBDA e : e.tag = "scraping")
    IN  [i \in 1..Len(calls) |-> calls[i].about]

IsPrefix(a, b) == Len(a) <= Len(b) /\ SubSeq(b, 1, Len(a)) = a

\* at the end every source was attempted once, in the configured order, and
\* readings_data is the records of the obtained sources in source, table and
\* row order
C7_FinalData ==
    pc = "done" =>
        /\ Attempted = SEASON_PAGES
        /\ readings_data = ConcatAll([s \in 1..Len(SEASON_PAGES) |-> SourceRecords(s)])

\* how far the run is: the source, the table and the row it is at
Progress ==
    <<IF pc = "start" THEN 0 ELSE IF pc = "done" THEN Len(SEASON_PAGES) + 2 ELSE src_idx,
      IF pc = "rows" THEN tbl_idx ELSE 0,
      IF pc = "rows" THEN row_idx ELSE 0>>

\* a comes before b in the lexicographic order
Before(a, b) ==
    \/ a[1] < b[1]
    \/ a[1] = b[1] /\ a[2] < b[2]
    \/ a[1] = b[1] /\ a[2] = b[2] /\ a[3] < b[3]

\* a step moves the run forward, keeps the records already appended as they
\* are, and for a source that cannot be obtained leaves readings_data unchanged
C7_StepKeepsRecords ==
    /\ Before(Progress, Progress')
    /\ IsPrefix(readings_data, readings_data')
    /\ (pc = "season" /\ src_idx <= Len(SEASON_PAGES) /\ ~pages[src_idx].obtained)
           => readings_data' = readings_data

\* the run is never stuck before its end: a step can be taken (ParseRow can
\* whenever the loop is at a data row)
C7_NeverStuck ==
    \/ pc = "done"
    \/ AtDataRow
    \/ ENABLED (Begin \/ FetchFailed \/ FetchOk \/ SkipHeader \/ NextTable \/ EndSeason \/ Finish)

\* C7: whichever sources cannot be obtained, scrape_all_seasons attempts every
\* source once in the configured order and terminates (every step moves the run
\* forward through the finitely many rows, and the run is never stuck before its
\* end); a source that cannot be obtained leaves readings_data unchanged; at the
\* end readings_data is the concatenation, in source, table and row order, of
\* the records of the rows of the obtained sources; no step removes, reorders
\* or changes a record.
C7_AllSourcesAttempted ==
    /\ []C7_FinalData
    /\ []C7_NeverStuck
    /\ [][C7_StepKeepsRecords]_vars

\* a run that ended with a source missing between two obtained ones
C7_Witness ==
    /\ pc = "done"
    /\ pages[1].obtained
    /\ ~pages[2].obtained
    /\ pages[3].obtained
    /\ Len(readings_data) >= 6
    /\ \E i \in 1..(Len(readings_data) - 1) :
          readings_data[i].cycle # readings_data[i + 1].cycle

-----------------------------------------------------------------------------
(* One call of parse_table_row, or of scrape_season for a source that cannot
   be obtained, with any number of records accumulated before it: SpecRow *)

\* the most cells a row holds
MaxCells == 9

\* the most records accumulated before the call
MaxAccum == 11

Placeholder == <<"-">>

RowDates == {<<"D","e","c","."," ","2","6">>, <<"S","u","n","."," ","a","f","t","e","r"," ","D","e","c","."," ","2","5">>}

RowCelebrations ==
    { <<"1","s","t"," ","S","u","n","d","a","y"," ","o","f"," ","A","d","v","e","n","t"," ","-"," ","A">>, <<"C","h","r","i","s","t","m","a","s"," ","(","V","i","g","i","l",")"," ","-"," ","A","B","C">>, <<"E","a","s","t","e","r"," ","S","u","n","d","a","y">>,
      <<"S","t","."," ","S","t","e","p","h","e","n",","," ","F","i","r","s","t"," ","M","a","r","t","y","r"," ","-"," ","A","B","C">>, <<"V","i","g","i","l"," ","-"," ","A","B","C">>, <<"2","n","d"," ","S","u","n","d","a","y"," ","-"," ","A","B">>,
      <<"P","a","l","m"," ","S","u","n","d","a","y"," ","ndash"," ","C">>, <<"T","h","e"," ","B","a","p","t","i","s","m"," ","o","f"," ","t","h","e"," ","L","o","r","d"," "," ","-"," ","B">> }

\* the five citations of a row, one of them (or none, for 0) the placeholder
Citations(hole) ==
    [i \in 1..5 |->
        IF i = hole THEN Placeholder
        ELSE << <<"I","s","a"," ","6","2",":","1","-","5">>, <<" ","P","s"," ","8","9",":","4","-","5",",","\n"," ","1","6","-","1","7",";"," ">>, <<"A","c","t","s"," ","1","3",":","1","6","-","1","7",".">>,
                <<"L","u","k","e"," ","2",":","1","4">>, <<"M","a","t","t"," ","1",":","1","-","2","5">> >>[i]]

\* rows with a column for the acclamation and one for the gospel, and more
WideRows ==
    { << d, <<"1","3","-","1","4">>, c >> \o Citations(hole) \o [i \in 1..(n - 8) |-> <<"x">>] :
        d \in RowDates, c \in RowCelebrations, hole \in 0..5, n \in 8..MaxCells }

\* rows of seven cells: the last holds the gospel, or acclamation | gospel
CombinedRows ==
    { << d, <<"1","3","-","1","4">>, c >> \o SubSeq(Citations(hole), 1, 3) \o << g >> :
        d \in RowDates, c \in RowCelebrations, hole \in 0..3,
        g \in { <<"L","u","k","e"," ","2",":","1","4","|","M","a","t","t"," ","1",":","1","-","2","5">>, <<"-","|","M","a","t","t"," ","1",":","1","-","2","5">>, <<"L","u","k","e"," ","2",":","1","4"," ","|"," ","-">>,
                <<"M","a","t","t"," ","1",":","1","-","2","5">>, <<"-">>, <<"a","|","b","|","c">> } }

\* rows of fewer cells
NarrowRows ==
    { SubSeq(<< d, <<"1","3","-","1","4">>, c >> \o Citations(0), 1, n) :
        d \in RowDates, c \in {<<"E","a","s","t","e","r"," ","S","u","n","d","a","y">>, <<"2","n","d"," ","S","u","n","d","a","y"," ","-"," ","A","B">>}, n \in 0..6 }

RowCalls ==
    [call : {"parse_table_row"}, cells : WideRows \cup CombinedRows \cup NarrowRows,
     season : {"Christmas"}, n : 0..MaxAccum]

SeasonCalls ==
    [call : {"scrape_season"}, cells : {<<>>},
     season : {SEASON_PAGES[i] : i \in DOMAIN SEASON_PAGES}, n : 0..MaxAccum]

InitRow ==
    /\ mode = "row"
    /\ pc = "input"
    /\ arg \in RowCalls \cup SeasonCalls
    /\ out = None
    /\ out2 = None
    /\ DriverIdle

\* the call with its records withheld once DebugLimit records are held
ParseRowCallCounting ==
    /\ mode = "row"
    /\ pc = "input"
    /\ arg.call = "parse_table_row"
    /\ out' = LET r == parse_table_row(arg.cells, arg.season, arg.n)
              IN  IF arg.n < DebugLimit THEN r ELSE [r EXCEPT !.entries = <<>>]
    /\ pc' = "once"
    /\ UNCHANGED <<mode, arg, out2>>
    /\ DriverUnchanged

\* parse_table_row(row, season) while readings_data holds arg.n records
ParseRowCall ==
    /\ mode = "row"
    /\ pc = "input"
    /\ arg.call = "parse_table_row"
    /\ out' = parse_table_row(arg.cells, arg.season, arg.n)
    /\ pc' = "once"
    /\ UNCHANGED <<mode, arg, out2>>
    /\ DriverUnchanged

\* scrape_season for a source that cannot be obtained, with arg.n records held
ScrapeUnavailableCall ==
    /\ mode = "row"
    /\ pc = "input"
    /\ arg.call = "scrape_season"
    /\ out' = ScrapeSeasonUnavailable(arg.season)
    /\ pc' = "once"
    /\ UNCHANGED <<mode, arg, out2>>
    /\ DriverUnchanged

NextRow == ParseRowCall \/ ScrapeUnavailableCall

SpecRow == InitRow /\ [][NextRow]_vars

\* the row of the call has at least seven cells and passes the Sunday filter
PassesFilter ==
    /\ Len(arg.cells) >= 7
    /\ is_sunday_reading(Strip(arg.cells[3]), Strip(arg.cells[1]))

\* the cycle extracted from the celebration cell of the call
ExtractedCycle == ExtractCelebration(Strip(arg.cells[3])).cycle

SkippedAsMalformed ==
    /\ arg.call = "parse_table_row"
    /\ \/ Len(arg.cells) < 7
       \/ PassesFilter /\ ExtractedCycle = "Unknown"

CitationCells(entry) ==
    { <<4, entry.first_reading>>, <<5, entry.psalm>>, <<6, entry.second_reading>>,
      <<7, entry.gospel_acc>>, <<8, entry.gospel>> }

\* C9: in every record, a citation field whose cell holds only the placeholder
\* "-" is the empty string; no record carries "-" as a citation.
C9_PlaceholderRemoved ==
    (pc = "once" /\ arg.call = "parse_table_row" /\ out.entries # <<>>) =>
        \A f \in CitationCells(out.entries[1]) :
            /\ f[2] # Placeholder
            /\ (Len(arg.cells) >= 8 /\ Strip(arg.cells[f[1]]) = Placeholder) => f[2] = <<>>

-----------------------------------------------------------------------------
(* The row parser and the records already held *)

\* C11: parse_table_row is deterministic and independent of prior rows: for
\* the same cells and season it returns the same records whatever the number
\* of records already held; the length read by the diagnostics never changes
\* the celebration, reading type, cycle or citations returned.  The call of
\* each state, made with arg.n records held, is compared with the same call
\* made with no record held and with MaxAccum held; arg.n ranges over
\* 0..MaxAccum, so any two calls on the same row agree.
C11_IndependentOfAccumulator ==
    (pc = "once" /\ arg.call = "parse_table_row") =>
        \A m \in {0, MaxAccum} :
            LET other == parse_table_row(arg.cells, arg.season, m)
            IN  /\ other.entries = out.entries
                /\ other.raised = out.raised

\* a row parsed with 10 or more records held gives the record it gives with
\* none held, though the diagnostics printed differ
C11_Witness ==
    /\ pc = "once"
    /\ arg.call = "parse_table_row"
    /\ arg.n >= DebugLimit
    /\ out.entries # <<>>
    /\ out.prints = <<>>
    /\ parse_table_row(arg.cells, arg.season, 0).prints # <<>>
    /\ parse_table_row(arg.cells, arg.season, 0).entries = out.entries

-----------------------------------------------------------------------------
(* The cycle token and its separator *)

\* raw ends with a token of one to three of the letters A, B, C that has a
\* separator (a dash or whitespace) before it
EndsWithSeparatedToken(raw) ==
    \E k \in 1..3 :
        /\ Len(raw) > k
        /\ \A i \in (Len(raw) - k + 1)..Len(raw) : raw[i] \in CycleLetters
        /\ raw[Len(raw) - k] \in Dashes \cup Whitespace

\* C12: a run of the letters A, B, C is taken as a cycle suffix only when it is
\* a trailing token with a separator before it: letters that are part of a word
\* of the name, mid-name or ending it with no separator before them, are never
\* captured as the cycle token and never removed from the celebration name.
C12_TokenNeedsSeparator ==
    (mode = "extract" /\ pc = "once" /\ ~EndsWithSeparatedToken(Strip(arg))) =>
        /\ ~out.matched
        /\ out.year_indicator = <<"A","B","C">>
        /\ out.celebration = extract_reading_type(Strip(arg)).celebration

\* C13: the cycle token found by the suffix search, or its default ABC, is one
\* of A, B, C, ABC, so determine_cycle never returns Unknown for it, and no row
\* of at least 7 cells that passes the Sunday filter is dropped for its token.
C13_TokenNeverUnknown ==
    (pc = "once" /\ arg.call = "parse_table_row" /\ PassesFilter) =>
        /\ ExtractCelebration(Strip(arg.cells[3])).year_indicator \in CycleTokens
        /\ ExtractedCycle # "Unknown"
        /\ out.entries # <<>>

-----------------------------------------------------------------------------
(* The celebration text of a record: SpecCelebration *)

UntidyAlphabet == {"a", " ", "\n", ".", ",", ";"}

\* what follows the name in the cell: nothing, punctuation, a parenthetical, a
\* cycle suffix
CelebrationEndings ==
    { <<>>, <<".">>, <<" ","-"," ","A">>, <<"."," ","-"," ","A">>, <<" ","(","V","i","g","i","l",")">>, <<","," ","(","V","i","g","i","l",")"," ","-"," ","A","B","C">>, <<" ","(","A","t"," ","t","h","e"," "," ","V","i","g","i","l"," ","M","a","s","s",")"," ","-"," ","B">> }

\* celebration cells with whitespace and punctuation inside and after the name
UntidyCelebrations ==
    { <<"2","n","d">> \o t \o <<"S","u","n","d","a","y">> \o e :
        t \in StringsUpTo(UntidyAlphabet, MaxLen), e \in CelebrationEndings }

InitCelebration ==
    /\ mode = "row"
    /\ pc = "input"
    /\ arg \in [call : {"parse_table_row"},
                cells : { << <<"D","e","c","."," ","2","6">>, <<"1","3">>, c >> \o Citations(0) : c \in UntidyCelebrations },
                season : {"Advent"}, n : {0, DebugLimit}]
    /\ out = None
    /\ out2 = None
    /\ DriverIdle

NextCelebration == ParseRowCall

SpecCelebration == InitCelebration /\ [][NextCelebration]_vars

\* C14: in every record of parse_table_row the celebration is a fixed point of
\* clean_reading_text: its runs of whitespace are single spaces, it has no
\* leading or trailing whitespace and does not end with one of . , ;
C14_CelebrationNormalized ==
    (pc = "once" /\ arg.call = "parse_table_row" /\ out.entries # <<>>) =>
        clean_reading_text(out.entries[1].celebration) = out.entries[1].celebration

=============================================================================
